---- MODULE Spec2Model ----
(***************************************************************************)
(* Model of hack.py: the dependency graph built from the installed         *)
(* packages' requires/provides, and the cycle-breaking topological sort.   *)
(* A package is identified by its position in `installed` (package         *)
(* objects are distinct even when their names coincide).                   *)
(***************************************************************************)
EXTENDS Integers, Sequences, FiniteSets, TLC

\* Bounds of the model.
MaxPkgs == 3
MaxRels == 6

\* The capability strings packages provide and require.
Caps == {"x", "y"}

\* ---------------------------------------------------------------------
\* Helpers on sequences and sets.

Range(s) == {s[k] : k \in 1..Len(s)}

\* All the orders in which a set can be iterated.
Orderings(S) ==
  {s \in [1..Cardinality(S) -> S] : \A a, b \in 1..Cardinality(S) : a # b => s[a] # s[b]}

\* F applied to the value of a (the argument is evaluated once, before the call).
Strict(F(_), a) == CHOOSE r \in {F(x) : x \in {a}} : TRUE

\* Position of x in the sequence s (0 when absent).
IndexOf(s, x) == IF x \in Range(s) THEN CHOOSE k \in 1..Len(s) : s[k] = x ELSE 0

\* The names of a list of n packages: the k-th package is named k, except
\* that the second package may be a namesake of the first.
Names(n) ==
  {[k \in 1..n |-> k]} \cup {[k \in 1..n |-> IF k = 2 THEN 1 ELSE k] : d \in 2..n}

VARIABLES installed, pc, i, graph, keys, ts, cycles, result, attempts, removals, output

vars == <<installed, pc, i, graph, keys, ts, cycles, result, attempts, removals, output>>

Ids == 1..Len(installed)

\* ---------------------------------------------------------------------
\* Graph construction (lines 10-18).  The defaultdict is a pair: the
\* mapping `graph` (empty set for a missing key) and its keys in insertion
\* order.

EmptyGraph == [graph |-> [p \in 1..MaxPkgs |-> {}], keys |-> <<>>]

\* graph[node]: a read of the defaultdict inserts the key when it is missing.
Touch(st, node) ==
  IF node \in Range(st.keys) THEN st ELSE [st EXCEPT !.keys = Append(@, node)]

\* Providers filtering on the requirements of the packages.
ProvidersByRequires(order, req) ==
  SelectSeq(order, LAMBDA q : req \in installed[q].requires)

\* Providers keeping only the first provider found.
ProvidersFirstOnly(order, req) ==
  IF SelectSeq(order, LAMBDA q : req \in installed[q].provides) = <<>> THEN <<>>
  ELSE <<Head(SelectSeq(order, LAMBDA q : req \in installed[q].provides))>>

\* installed.filter(provides=req), in the order of the package list.
Providers(order, req) ==
  SelectSeq(order, LAMBDA q : req \in installed[q].provides)

\* AddProvider without the test `pkg not in graph[provider]`.
AddProviderNoReverseGuard(st, pkg, provider) ==
  IF installed[pkg].name = installed[provider].name THEN st
  ELSE [Touch(Touch(st, provider), pkg) EXCEPT !.graph[pkg] = @ \cup {provider}]

\* AddProvider testing `pkg not in graph.get(provider, ())`: the read
\* creates no key.
AddProviderNoVivify(st, pkg, provider) ==
  IF installed[pkg].name = installed[provider].name THEN st
  ELSE IF pkg \in st.graph[provider] THEN st
  ELSE [Touch(st, pkg) EXCEPT !.graph[pkg] = @ \cup {provider}]

\* AddProvider without the comparison of the names.
AddProviderNoNameGuard(st, pkg, provider) ==
  IF pkg \in st.graph[provider] THEN Touch(st, provider)
  ELSE [Touch(Touch(st, provider), pkg) EXCEPT !.graph[pkg] = @ \cup {provider}]

\* AddProvider skipping every provider that has a dependency of its own.
AddProviderUnlessBusy(st, pkg, provider) ==
  IF installed[pkg].name = installed[provider].name THEN st
  ELSE IF st.graph[provider] # {} THEN Touch(st, provider)
  ELSE [Touch(Touch(st, provider), pkg) EXCEPT !.graph[pkg] = @ \cup {provider}]

\* Lines 17-18 for one provider.
AddProvider(st, pkg, provider) ==
  IF installed[pkg].name = installed[provider].name THEN st
  ELSE IF pkg \in st.graph[provider] THEN Touch(st, provider)
  ELSE [Touch(Touch(st, provider), pkg) EXCEPT !.graph[pkg] = @ \cup {provider}]

\* Lines 16-18: the loop over the providers of one requirement.
RECURSIVE AddProviders(_, _)
AddProviders(pkg, c) ==
  IF c.todo = <<>> THEN c.st
  ELSE Strict(LAMBDA n : AddProviders(pkg, n),
              [st |-> AddProvider(c.st, pkg, Head(c.todo)), todo |-> Tail(c.todo)])

\* Lines 13-18 for one package; c.todo is what is left of pkg.requires in
\* its iteration order, c.st the defaultdict so far.
RECURSIVE BuildPkg(_, _, _)
BuildPkg(order, pkg, c) ==
  IF c.todo = <<>> THEN c.st
  ELSE Strict(LAMBDA n : BuildPkg(order, pkg, n),
              [st |-> AddProviders(pkg, [st |-> c.st, todo |-> Providers(order, Head(c.todo))]),
               todo |-> Tail(c.todo)])

\* Lines 12-18 for a whole package list, every pkg.requires iterated in
\* the order reqOrder[pkg].
RECURSIVE BuildGraph(_, _, _)
BuildGraph(order, reqOrder, c) ==
  IF c.todo = <<>> THEN c.st
  ELSE Strict(LAMBDA n : BuildGraph(order, reqOrder, n),
              [st |-> BuildPkg(order, Head(c.todo), [st |-> c.st, todo |-> reqOrder[Head(c.todo)]]),
               todo |-> Tail(c.todo)])

EdgeSet(g) == {e \in (1..MaxPkgs) \X (1..MaxPkgs) : e[2] \in g[e[1]]}

NumEdges(g) == Cardinality(EdgeSet(g))

\* ---------------------------------------------------------------------
\* graphlib.TopologicalSorter(graph).static_order() (line 26).

\* _get_nodeinfo for each of nodes: a node enters _node2info when first seen.
RECURSIVE AddAll(_)
AddAll(c) ==
  IF c.todo = <<>> THEN c.n2i
  ELSE Strict(LAMBDA n : AddAll(n),
              [n2i |-> IF Head(c.todo) \in Range(c.n2i) THEN c.n2i ELSE Append(c.n2i, Head(c.todo)),
               todo |-> Tail(c.todo)])

\* _node2info insertion order: each key of the graph, then its predecessors
\* in the iteration order ord[key] of the set graph[key].
RECURSIVE NodeOrder(_, _)
NodeOrder(ord, c) ==
  IF c.todo = <<>> THEN c.n2i
  ELSE Strict(LAMBDA n : NodeOrder(ord, n),
              [n2i |-> AddAll([n2i |-> c.n2i, todo |-> <<Head(c.todo)>> \o ord[Head(c.todo)]]),
               todo |-> Tail(c.todo)])

\* Successors with the direction of the edges confused.
SuccessorsAsPredecessors(g, ks, n) == SelectSeq(ks, LAMBDA m : m \in g[n])

\* successors of n: the keys that have n as a predecessor, in key order.
Successors(g, ks, n) == SelectSeq(ks, LAMBDA m : n \in g[m])

\* FcStep without the test that a node seen again is on the stack.
FcStepNoStackCheck(c) ==
  CASE c.at = "for" ->
         IF c.k > Len(c.n2i) THEN [c EXCEPT !.at = "ret", !.cycle = <<>>]
         ELSE IF c.n2i[c.k] \in c.seen THEN [c EXCEPT !.k = @ + 1]
         ELSE [c EXCEPT !.at = "while", !.node = c.n2i[c.k]]
    [] c.at = "while" ->
         IF c.node \in c.seen
         THEN [c EXCEPT !.at = "back"]
         ELSE [c EXCEPT !.at = "back",
                        !.seen = @ \cup {c.node},
                        !.itstack = Append(@, 1),
                        !.stack = Append(@, c.node)]
    [] c.at = "back" ->
         IF c.stack = <<>> THEN [c EXCEPT !.at = "for", !.k = @ + 1]
         ELSE IF c.itstack[Len(c.itstack)] <= Len(c.succ[c.stack[Len(c.stack)]])
         THEN [c EXCEPT !.at = "while",
                        !.node = c.succ[c.stack[Len(c.stack)]][c.itstack[Len(c.itstack)]],
                        !.itstack[Len(c.itstack)] = @ + 1]
         ELSE [c EXCEPT !.stack = SubSeq(@, 1, Len(@) - 1),
                        !.itstack = SubSeq(@, 1, Len(@) - 1)]

\* One step of _find_cycle, a depth-first search along successors.
\* c.n2i is _node2info in insertion order, c.succ the successors of each
\* node; c.at is the place in the code: "for" the loop over _node2info,
\* "while" the top of the while loop, "back" the backtracking loop, "ret"
\* the return.
FcStep(c) ==
  CASE c.at = "for" ->
         IF c.k > Len(c.n2i) THEN [c EXCEPT !.at = "ret", !.cycle = <<>>]
         ELSE IF c.n2i[c.k] \in c.seen THEN [c EXCEPT !.k = @ + 1]
         ELSE [c EXCEPT !.at = "while", !.node = c.n2i[c.k]]
    [] c.at = "while" ->
         IF c.node \in c.seen
         THEN IF c.node \in Range(c.stack)
              THEN [c EXCEPT !.at = "ret",
                             !.cycle = SubSeq(c.stack, IndexOf(c.stack, c.node), Len(c.stack))
                                         \o <<c.node>>]
              ELSE [c EXCEPT !.at = "back"]
         ELSE [c EXCEPT !.at = "back",
                        !.seen = @ \cup {c.node},
                        !.itstack = Append(@, 1),
                        !.stack = Append(@, c.node)]
    [] c.at = "back" ->
         IF c.stack = <<>> THEN [c EXCEPT !.at = "for", !.k = @ + 1]
         ELSE IF c.itstack[Len(c.itstack)] <= Len(c.succ[c.stack[Len(c.stack)]])
         THEN [c EXCEPT !.at = "while",
                        !.node = c.succ[c.stack[Len(c.stack)]][c.itstack[Len(c.itstack)]],
                        !.itstack[Len(c.itstack)] = @ + 1]
         ELSE [c EXCEPT !.stack = SubSeq(@, 1, Len(@) - 1),
                        !.itstack = SubSeq(@, 1, Len(@) - 1)]

RECURSIVE FcLoop(_)
FcLoop(c) ==
  IF c.at = "ret" THEN c.cycle
  ELSE Strict(LAMBDA n : FcLoop(n), FcStep(c))

\* FindCycle reporting the cycle in the direction of the predecessors.
FindCycleBackwards(g, ks, n2i) ==
  Strict(LAMBDA cyc : [k \in 1..Len(cyc) |-> cyc[Len(cyc) + 1 - k]],
         Strict(LAMBDA c : FcLoop(c),
                [n2i |-> n2i, succ |-> [n \in 1..MaxPkgs |-> Successors(g, ks, n)],
                 at |-> "for", k |-> 1, node |-> 0, stack |-> <<>>,
                 itstack |-> <<>>, seen |-> {}, cycle |-> <<>>]))

\* _find_cycle: the cycle [n0, n1, ..., n0] found, each node a direct
\* predecessor of the next; <<>> stands for None.
FindCycle(g, ks, n2i) ==
  Strict(LAMBDA c : FcLoop(c),
         [n2i |-> n2i, succ |-> [n \in 1..MaxPkgs |-> Successors(g, ks, n)],
          at |-> "for", k |-> 1, node |-> 0, stack |-> <<>>,
          itstack |-> <<>>, seen |-> {}, cycle |-> <<>>])

\* done(): a successor of a finished node loses one predecessor and becomes
\* ready when none is left.
RECURSIVE DoneSucc(_)
DoneSucc(c) ==
  IF c.todo = <<>> THEN c
  ELSE Strict(LAMBDA n : DoneSucc(n),
              [npred |-> [c.npred EXCEPT ![Head(c.todo)] = @ - 1],
               ready |-> IF c.npred[Head(c.todo)] = 1 THEN Append(c.ready, Head(c.todo))
                         ELSE c.ready,
               todo |-> Tail(c.todo)])

\* done(*nodes).
RECURSIVE DoneNodes(_, _, _)
DoneNodes(g, ks, c) ==
  IF c.nodes = <<>> THEN c
  ELSE Strict(LAMBDA n : DoneNodes(g, ks, n),
              [DoneSucc([npred |-> c.npred, ready |-> c.ready,
                         todo |-> Successors(g, ks, Head(c.nodes))])
                 EXCEPT !.todo = <<>>] @@ [nodes |-> Tail(c.nodes)])

\* The get_ready()/done() loop of static_order.
RECURSIVE ReadyLoop(_, _, _)
ReadyLoop(g, ks, c) ==
  IF c.ready = <<>> THEN c.out
  ELSE Strict(LAMBDA n : ReadyLoop(g, ks, n),
              [DoneNodes(g, ks, [npred |-> c.npred, ready |-> <<>>, todo |-> <<>>,
                                 nodes |-> c.ready])
                 EXCEPT !.nodes = <<>>] @@ [out |-> c.out \o c.ready])

\* StaticOrder yielding the dependents first.
StaticOrderDependentsFirst(g, ks, n2i) ==
  Strict(LAMBDA o : [k \in 1..Len(o) |-> o[Len(o) + 1 - k]],
         ReadyLoop(g, ks,
                   [npred |-> [p \in 1..MaxPkgs |-> Cardinality(g[p])],
                    ready |-> SelectSeq(n2i, LAMBDA n : g[n] = {}),
                    todo |-> <<>>, nodes |-> <<>>, out |-> <<>>]))

\* static_order() on a graph without a cycle: prepare() makes the nodes
\* without predecessors ready, in _node2info order.
StaticOrder(g, ks, n2i) ==
  ReadyLoop(g, ks,
            [npred |-> [p \in 1..MaxPkgs |-> Cardinality(g[p])],
             ready |-> SelectSeq(n2i, LAMBDA n : g[n] = {}),
             todo |-> <<>>, nodes |-> <<>>, out |-> <<>>])

\* The iteration orders of the dependency sets of g: ord[p] enumerates g[p].
RECURSIVE SetOrdersUpTo(_, _)
SetOrdersUpTo(g, n) ==
  IF n = 0 THEN {<<>>}
  ELSE {Append(ord, o) : ord \in SetOrdersUpTo(g, n - 1), o \in Orderings(g[n])}

SetOrders(g) == SetOrdersUpTo(g, MaxPkgs)

\* TopologicalSorter(graph): the _node2info orders the constructor can
\* produce, one for each way of iterating the dependency sets.
NodeOrders(g, ks) == {NodeOrder(ord, [n2i |-> <<>>, todo |-> ks]) : ord \in SetOrders(g)}

\* RemoveEdge with the two nodes of the cycle exchanged.
RemoveEdgeReversed(st, cyc) ==
  IF cyc[2] \in st.graph[cyc[1]]
  THEN [ok |-> TRUE, st |-> [Touch(st, cyc[1]) EXCEPT !.graph[cyc[1]] = @ \ {cyc[2]}]]
  ELSE [ok |-> FALSE, st |-> Touch(st, cyc[1])]

\* RemoveEdge with the nodes exchanged and discard() in place of remove().
RemoveEdgeDiscardReversed(st, cyc) ==
  [ok |-> TRUE, st |-> [Touch(st, cyc[1]) EXCEPT !.graph[cyc[1]] = @ \ {cyc[2]}]]

\* RemoveEdge dropping the whole entry of the dependent: graph.pop(cycle[1]).
RemoveEdgePopKey(st, cyc) ==
  [ok |-> TRUE,
   st |-> [graph |-> [st.graph EXCEPT ![cyc[2]] = {}],
           keys |-> SelectSeq(st.keys, LAMBDA k : k # cyc[2])]]

\* Line 30: graph[cycle[1]].remove(cycle[0]) (0-based in the source).
\* graph[cycle[1]] is a read of the defaultdict; set.remove raises KeyError
\* when the element is not in the set.
RemoveEdge(st, cyc) ==
  IF cyc[1] \in st.graph[cyc[2]]
  THEN [ok |-> TRUE, st |-> [Touch(st, cyc[2]) EXCEPT !.graph[cyc[2]] = @ \ {cyc[1]}]]
  ELSE [ok |-> FALSE, st |-> Touch(st, cyc[2])]

\* ---------------------------------------------------------------------
\* The program.

\* The number of provides and requires entries of a package list.
RECURSIVE NumRels(_, _, _)
NumRels(pv, rq, n) ==
  IF n = 0 THEN 0
  ELSE Cardinality(pv[n]) + Cardinality(rq[n]) + NumRels(pv, rq, n - 1)

\* How the packages 1..n use capability c, as a number.
RECURSIVE CapUse(_, _, _, _)
CapUse(pv, rq, n, c) ==
  IF n = 0 THEN 0
  ELSE (IF c \in pv[n] THEN 2 ELSE 0) + (IF c \in rq[n] THEN 1 ELSE 0)
       + 4 * CapUse(pv, rq, n - 1, c)

Init ==
  /\ installed = <<>>
  /\ pc = "load"
  /\ i = 1
  /\ graph = EmptyGraph.graph
  /\ keys = EmptyGraph.keys
  /\ ts = EmptyGraph.graph
  /\ cycles = FALSE
  /\ result = <<>>
  /\ attempts = 0
  /\ removals = 0
  /\ output = <<>>

\* Lines 4-7: the installed packages are read from the package database.
LoadInstalled ==
  /\ pc = "load"
  /\ \E n \in 0..MaxPkgs :
       \E nm \in Names(n), pv \in [1..n -> SUBSET Caps], rq \in [1..n -> SUBSET Caps] :
         /\ NumRels(pv, rq, n) <= MaxRels
         \* capabilities are opaque strings: one of each pair of package lists
         \* that differ by exchanging "x" and "y"
         /\ CapUse(pv, rq, n, "x") >= CapUse(pv, rq, n, "y")
         /\ installed' = [p \in 1..n |-> [name |-> nm[p], provides |-> pv[p], requires |-> rq[p]]]
  /\ pc' = "build"
  /\ UNCHANGED <<i, graph, keys, ts, cycles, result, attempts, removals, output>>

\* One iteration of `for pkg in installed` (lines 12-18).
BuildStep ==
  /\ pc = "build"
  /\ i <= Len(installed)
  /\ \E reqs \in Orderings(installed[i].requires) :
       \E st \in {BuildPkg([p \in Ids |-> p], i,
                            [st |-> [graph |-> graph, keys |-> keys], todo |-> reqs])} :
         /\ graph' = st.graph
         /\ keys' = st.keys
  /\ i' = i + 1
  /\ UNCHANGED <<installed, pc, ts, cycles, result, attempts, removals, output>>

\* Lines 21-22: cycles = True; ts = TopologicalSorter(graph).
StartSort ==
  /\ pc = "build"
  /\ i > Len(installed)
  /\ pc' = "sort"
  /\ cycles' = TRUE
  /\ ts' = graph
  /\ UNCHANGED <<installed, i, graph, keys, result, attempts, removals, output>>

\* Lines 25-27: the sort attempt succeeds.
SortOk ==
  /\ pc = "sort"
  /\ cycles
  /\ cycles' = FALSE
  /\ attempts' = attempts + 1
  /\ UNCHANGED <<installed, pc, i, graph, keys, ts, removals, output>>
  /\ \E n2i \in NodeOrders(graph, keys) :
       /\ FindCycle(graph, keys, n2i) = <<>>
       /\ result' = StaticOrder(graph, keys, n2i)

\* Lines 25-30: the sort attempt raises CycleError and one edge is removed;
\* a KeyError of the removal is not caught and ends the script.
BreakCycle ==
  /\ pc = "sort"
  /\ cycles
  /\ attempts' = attempts + 1
  /\ UNCHANGED <<installed, i, ts, cycles, result, output>>
  /\ \E n2i \in NodeOrders(graph, keys) :
       \E cyc \in {FindCycle(graph, keys, n2i)} :
         /\ cyc # <<>>
         /\ \E r \in {RemoveEdge([graph |-> graph, keys |-> keys], cyc)} :
              /\ graph' = r.st.graph
              /\ keys' = r.st.keys
              /\ pc' = IF r.ok THEN "sort" ELSE "KeyError"
              /\ removals' = IF r.ok THEN removals + 1 ELSE removals

\* Line 33: the names of the result are printed.
PrintResult ==
  /\ pc = "sort"
  /\ ~cycles
  /\ output' = [k \in 1..Len(result) |-> installed[result[k]].name]
  /\ pc' = "done"
  /\ UNCHANGED <<installed, i, graph, keys, ts, cycles, result, attempts, removals>>

Next == LoadInstalled \/ BuildStep \/ StartSort \/ SortOk \/ BreakCycle \/ PrintResult

Spec == Init /\ [][Next]_vars

\* The graph builder alone: the run up to the start of the sort.
NextBuilder == LoadInstalled \/ BuildStep \/ StartSort

BuilderSpec == Init /\ [][NextBuilder]_vars

\* The body of the while loop runs without waiting for anything.
FairSpec == Spec /\ WF_vars(SortOk \/ BreakCycle)

TypeOK ==
  /\ pc \in {"load", "build", "sort", "done", "KeyError"}
  /\ i \in 1..(MaxPkgs + 1)
  /\ Range(keys) \subseteq Ids
  /\ \A p \in 1..MaxPkgs : graph[p] \subseteq Range(keys)

\* ---------------------------------------------------------------------
\* Vocabulary of the properties.

\* The sort loop is in Done: the while loop has exited with a result.
SortDone == pc \in {"sort", "done"} /\ ~cycles

\* The graph builder has processed all packages; ts holds the graph as built.
Built == pc \in {"sort", "done", "KeyError"}

DistinctNames ==
  \A a, b \in Ids : a # b => installed[a].name # installed[b].name

\* P requires a capability that the differently named Q provides.
Dep(P, Q) ==
  /\ installed[P].name # installed[Q].name
  /\ installed[P].requires \cap installed[Q].provides # {}

\* The number of times p occurs in the sequence s.
Count(s, p) == Cardinality({k \in 1..Len(s) : s[k] = p})

\* s lists every node of ns once and every dependency before its dependent.
TopologicalOrder(s, g, ns) ==
  /\ \A p \in ns : Count(s, p) = 1
  /\ Range(s) \subseteq ns
  /\ \A a \in ns : \A b \in g[a] : IndexOf(s, b) < IndexOf(s, a)

\* The nodes reachable from the set S along at most n edges of g.
RECURSIVE ReachFrom(_, _, _)
ReachFrom(g, S, n) ==
  IF n = 0 THEN S
  ELSE ReachFrom(g, S \cup UNION {g[p] : p \in S}, n - 1)

\* g has no directed cycle: no node is reachable from its dependencies.
Acyclic(g) == \A p \in 1..MaxPkgs : p \notin ReachFrom(g, g[p], MaxPkgs)

\* ---------------------------------------------------------------------
\* C1 (completeness): when the run reaches Done on packages with distinct
\* names, the ordered result contains every input package exactly once,
\* isolated packages included.
C1_Completeness ==
  (SortDone /\ DistinctNames) => \A p \in Ids : Count(result, p) = 1

\* C2 (order respect): when the sort loop has finished, every dependency B
\* of A that is still in the working graph is in the result strictly before A.
C2_OrderRespect ==
  SortDone =>
    \A a \in 1..MaxPkgs : \A b \in graph[a] :
      /\ IndexOf(result, a) > 0
      /\ IndexOf(result, b) > 0
      /\ IndexOf(result, b) < IndexOf(result, a)

\* A sort that finished after breaking a cycle, with edges left to respect.
C2_Witness == SortDone /\ removals >= 1 /\ NumEdges(graph) >= 2

\* A step of the sort loop that stays in the loop.
Retry == pc = "sort" /\ cycles /\ pc' = "sort" /\ cycles'

\* C3 (termination): once the sort loop is entered it eventually reaches
\* Done, and every retry strictly decreases the number of edges of the
\* working graph.
C3_Termination ==
  /\ (pc = "sort") ~> SortDone
  /\ [][Retry => NumEdges(graph') < NumEdges(graph)]_vars

\* The loop has exited after at least one retry.
C3_Witness == SortDone /\ attempts >= 2

PkgOrders == Orderings(Ids)

ReqOrder == [p \in Ids |-> CHOOSE s \in Orderings(installed[p].requires) : TRUE]

BuiltFrom(order) == BuildGraph(order, ReqOrder, [st |-> EmptyGraph, todo |-> order]).graph

\* The pairs of packages joined by an edge, whatever its direction.
Adjacent(g) == {{e[1], e[2]} : e \in EdgeSet(g)}

\* The builder has just finished.
JustBuilt == pc = "sort" /\ attempts = 0

C6_AllNodesKept == Built => \A p \in Ids : p \in Range(keys)

\* C7 (no self-edges): in every state no edge joins a package to itself or
\* to a package of the same name.
C7_NoSelfEdges ==
  \A p \in Ids : \A q \in graph[p] : p # q /\ installed[p].name # installed[q].name

\* Built from a package that provides what it requires and a namesake that
\* provides it too, with an edge recorded.
C7_Witness ==
  /\ Built
  /\ NumEdges(ts) >= 1
  /\ \E p, q \in Ids :
       /\ p # q
       /\ installed[p].name = installed[q].name
       /\ installed[p].requires \cap installed[p].provides \cap installed[q].provides # {}

\* C8 (no-op on acyclic input): when the built graph has no directed cycle
\* the sorter finishes on its first attempt, removes no edge and returns a
\* topological order of that graph.
C8_AcyclicNoOp ==
  (SortDone /\ Acyclic(ts)) =>
    /\ attempts = 1
    /\ removals = 0
    /\ graph = ts
    /\ TopologicalOrder(result, ts, Range(keys))

\* The sort is done on an acyclic graph with a chain of two edges.
C8_Witness ==
  SortDone /\ Acyclic(ts) /\ \E p \in Ids : \E q \in ts[p] : ts[q] # {}

\* C9 (removal bound): the edges removed so far are at most the edges of the
\* graph as built, the sort attempts at most one more, and no step of the
\* loop increases the number of edges of the working graph.
C9_RemovalBound ==
  /\ [](Built => (removals <= NumEdges(ts) /\ attempts <= NumEdges(ts) + 1))
  /\ [][(pc = "sort") => NumEdges(graph') <= NumEdges(graph)]_vars

\* An edge was removed.
C9_Witness == Built /\ removals >= 1

\* C10 (duplicate names): the run ends in an error or no name appears more
\* than once in the ordered result.
C10_NoDuplicateNames ==
  (pc = "done") => \A j, k \in 1..Len(output) : j # k => output[j] # output[k]

\* The packages the sorter orders: the keys of the mapping and the members
\* of the dependency sets.
Nodes(g, ks) == Range(ks) \cup UNION {g[p] : p \in 1..MaxPkgs}

\* The edge 'a depends on b' of g lies on a directed cycle of g.
OnCycle(g, a, b) == b \in g[a] /\ a \in ReachFrom(g, g[b], MaxPkgs)

\* C11 (the removed edge is a cycle edge): whenever a sort attempt reports a
\* cycle [n0, n1, ..., n0], n0 is in graph[n1] and the edge 'n1 depends on
\* n0' lies on a directed cycle of the working graph; the removal never
\* fails, and a cycle-breaking step removes exactly one edge, which was on a
\* cycle.
C11_RemovesCycleEdge ==
  /\ []((pc = "sort" /\ cycles) =>
          \A n2i \in NodeOrders(graph, keys) :
            \A cyc \in {FindCycle(graph, keys, n2i)} :
              cyc # <<>> => /\ Len(cyc) >= 2
                            /\ cyc[1] = cyc[Len(cyc)]
                            /\ OnCycle(graph, cyc[2], cyc[1]))
  /\ [](pc # "KeyError")
  /\ [][Retry => \E e \in EdgeSet(graph) :
                    /\ EdgeSet(graph') = EdgeSet(graph) \ {e}
                    /\ OnCycle(graph, e[1], e[2])]_vars

\* The loop is about to retry after a removal, with edges left.
C11_Witness == pc = "sort" /\ cycles /\ removals >= 1 /\ NumEdges(graph) >= 1

\* C12 (frame of cycle-breaking): a step of the sort loop leaves the keys of
\* the mapping and the set of packages to order unchanged and adds no edge;
\* a cycle-breaking step removes one edge and leaves every other edge as it
\* was, any other step of the loop leaves all the edges.
C12_Frame ==
  [][(pc = "sort") =>
       /\ keys' = keys
       /\ Nodes(graph', keys') = Nodes(graph, keys)
       /\ EdgeSet(graph') \subseteq EdgeSet(graph)
       /\ Cardinality(EdgeSet(graph) \ EdgeSet(graph')) = (IF Retry THEN 1 ELSE 0)]_vars

\* An edge of a graph on three packages was removed and two edges are left.
C12_Witness ==
  Built /\ removals = 1 /\ Cardinality(Nodes(graph, keys)) = 3 /\ NumEdges(graph) = 2

\* The packages that are an end of an edge of g.
Incident(g) == {p \in 1..MaxPkgs : g[p] # {}} \cup UNION {g[p] : p \in 1..MaxPkgs}

\* C13 (acyclic at Done): when the sort loop has exited the working graph
\* has no directed cycle, its edges are edges of the graph as built, and its
\* nodes are the nodes of the graph as built (the ends of its edges).
C13_AcyclicAtDone ==
  /\ (JustBuilt \/ SortDone) => Nodes(graph, keys) = Incident(ts)
  /\ SortDone => (Acyclic(graph) /\ EdgeSet(graph) \subseteq EdgeSet(ts))

\* The loop has exited on a graph that was built with a cycle.
C13_Witness == SortDone /\ ~Acyclic(ts) /\ NumEdges(graph) < NumEdges(ts)

\* No package of the input provides the capability c.
NoProvider(c) == \A Q \in Ids : c \notin installed[Q].provides

\* C14 (edge soundness, unsatisfied requirements): every edge 'P depends on
\* Q' of the graph is witnessed by a capability that P requires and the
\* differently named Q provides; processing a package whose requirements have
\* no provider changes nothing in the graph and the builder goes on to the
\* next package.
C14_EdgeSoundness ==
  /\ [](\A P \in 1..MaxPkgs : \A Q \in graph[P] \cup ts[P] :
          P \in Ids /\ Q \in Ids /\ Dep(P, Q))
  /\ [][(/\ pc = "build"
         /\ i <= Len(installed)
         /\ \A c \in installed[i].requires : NoProvider(c))
        => (graph' = graph /\ keys' = keys /\ pc' = "build" /\ i' = i + 1)]_vars

\* Built with an edge from a package that also has a requirement without
\* a provider.
C14_Witness ==
  Built /\ \E P \in Ids : ts[P] # {} /\ \E c \in installed[P].requires : NoProvider(c)

\* C15 (antisymmetry): in every state of the builder no two packages depend
\* on each other in the graph, and of two differently named packages that
\* each require a capability of the other, the built graph has the edge from
\* the one processed first and not the opposite edge.
C15_Antisymmetric ==
  /\ \A P, Q \in 1..MaxPkgs : ~(Q \in graph[P] /\ P \in graph[Q])
  /\ Built => \A P, Q \in Ids :
                (P < Q /\ Dep(P, Q) /\ Dep(Q, P)) => (Q \in ts[P] /\ P \notin ts[Q])

\* Built from three packages, two of which require each other, with a
\* second edge.
C15_Witness ==
  /\ Built
  /\ Len(installed) = 3
  /\ NumEdges(ts) >= 2
  /\ \E P, Q \in Ids : P < Q /\ Dep(P, Q) /\ Dep(Q, P) /\ P \notin ts[Q]

\* X takes part in a requires/provides relation with a package of another
\* name.
Related(X) == \E Y \in Ids : Dep(X, Y) \/ Dep(Y, X)

\* C16 (result set): when the sort loop has exited, a package is in the
\* result if and only if it takes part in a cross-name requires/provides
\* relation, and after construction every such package is a key of the
\* mapping.
C16_ResultSet ==
  /\ SortDone => /\ Range(result) \subseteq Ids
                 /\ \A X \in Ids : (X \in Range(result)) <=> Related(X)
  /\ Built => \A X \in Ids : Related(X) => X \in Range(keys)

\* The loop has exited with two of three packages in the result.
C16_Witness ==
  SortDone /\ Len(installed) = 3 /\ Cardinality(Range(result)) = 2

====
